---- MODULE Spec2Model ----
(***************************************************************************)
(* Model of api/pkg/handlers/discord_handler.go: the discord webhook       *)
(* handler (Event, verifyInteraction) and the Store handler of the         *)
(* discord integrations.                                                   *)
(*                                                                         *)
(* Bytes of headers and bodies are modelled as sequences of one-character  *)
(* strings; decoded bytes (signature, key) as sequences of 0..255.         *)
(***************************************************************************)
EXTENDS Integers, Sequences, FiniteSets, TLC

VARIABLES
    publicKey,      \* value of the DISCORD_PUBLIC_KEY environment variable
    sigHeader,      \* X-Signature-Ed25519 header of the request in flight
    tsHeader,       \* X-Signature-Timestamp header of the request in flight
    body,           \* raw body of the request in flight
    pc,             \* position of Event: idle, verify, parse, dispatch, done, panic
    verified,       \* outcome of verifyInteraction: none, true, false, panic
    rejectReason,   \* what verifyInteraction logged when it rejected
    cryptoInvoked,  \* ed25519.Verify was called for this request
    unmarshalled,   \* json.Unmarshal was called for this request
    payload,        \* result of json.Unmarshal (the decoded map)
    typeRead,       \* payload["type"] was read for this request
    commandInvoked, \* a command handler was called for this request
    responses,      \* responses emitted for the request in flight
    served,         \* number of requests Event has finished
    integrations,   \* stored discord integrations: sequence of owning user ids
    storePc,        \* position of each Store request
    storeUser,      \* authenticated user of each Store request
    storeFound,     \* result of service.Index held by each Store request
    storeResponse   \* response of each Store request

eventVars == <<publicKey, sigHeader, tsHeader, body, pc, verified, rejectReason,
               cryptoInvoked, unmarshalled, payload, typeRead, commandInvoked,
               responses, served>>
storeVars == <<integrations, storePc, storeUser, storeFound, storeResponse>>
vars == <<eventVars, storeVars>>

(***************************************************************************)
(* Bounds of the model.                                                    *)
(***************************************************************************)
NumKeyPairs == 2
MaxRequests == 2
MaxStoreRequests == 3
NumUsers == 2

(***************************************************************************)
(* encoding/hex                                                            *)
(***************************************************************************)
HexLower == <<"0","1","2","3","4","5","6","7","8","9","a","b","c","d","e","f">>
HexUpper == <<"0","1","2","3","4","5","6","7","8","9","A","B","C","D","E","F">>

IsHexChar(c) == \E i \in 1..16 : HexLower[i] = c \/ HexUpper[i] = c

HexVal(c) == (CHOOSE i \in 1..16 : HexLower[i] = c \/ HexUpper[i] = c) - 1

\* hex.DecodeString: an error for an odd length or a non-hex character,
\* otherwise one byte per pair of characters; both cases of a-f are accepted.
HexDecodeString(s) ==
    IF Len(s) % 2 # 0 \/ \E i \in 1..Len(s) : ~IsHexChar(s[i])
    THEN [ok |-> FALSE, bytes |-> <<>>]
    ELSE [ok |-> TRUE,
          bytes |-> [i \in 1..(Len(s) \div 2) |->
                        16 * HexVal(s[2 * i - 1]) + HexVal(s[2 * i])]]

\* hex.EncodeToString, as a conforming sender encodes the signature.
HexEncode(bytes, digits) ==
    [i \in 1..(2 * Len(bytes)) |->
        IF i % 2 = 1 THEN digits[(bytes[(i + 1) \div 2] \div 16) + 1]
                     ELSE digits[(bytes[i \div 2] % 16) + 1]]

(***************************************************************************)
(* crypto/ed25519, abstracted: key pair k has a 32-byte public key, and    *)
(* the signature of a message under k is a deterministic 64-byte function  *)
(* of k and of an order-sensitive digest of the message bytes.             *)
(***************************************************************************)
SignatureSize == 64
PublicKeySize == 32

Alphabet == <<"0","1","2","3","4","5","6","7","8","9",
              "a","b","c","d","e","f","l","n","p","r","s","t","u","y","z",
              "A","B","C","D","E","F",
              "{","}","[","]",":",",",".","-"," ","\"">>

CharCode(c) == CHOOSE i \in 1..Len(Alphabet) : Alphabet[i] = c

RECURSIVE Digest(_, _)
Digest(msg, h) ==
    IF msg = <<>> THEN h
    ELSE Digest(Tail(msg), (h * 31 + CharCode(Head(msg))) % 65521)

KeyPairs == 1..NumKeyPairs

PublicKeyOf(k) == [i \in 1..PublicKeySize |-> (k * 16 + i) % 256]

\* ed25519.Sign by the private key of pair k (the remote platform's side).
Sign(k, msg) ==
    LET h == Digest(msg, 7)
    IN  [i \in 1..SignatureSize |->
            IF i = 1 THEN h % 256
            ELSE IF i = 2 THEN h \div 256
            ELSE IF i = 3 THEN k
            ELSE (h + i * k) % 256]

\* ed25519.Verify: panics when the public key is not PublicKeySize bytes,
\* false when the signature is not SignatureSize bytes, otherwise whether
\* sig is the signature of msg under the key pair of pub.
Ed25519Verify(pub, msg, sig) ==
    IF Len(pub) # PublicKeySize THEN "panic"
    ELSE IF Len(sig) # SignatureSize THEN "false"
    ELSE IF \E k \in KeyPairs : PublicKeyOf(k) = pub /\ Sign(k, msg) = sig
         THEN "true"
         ELSE "false"

(***************************************************************************)
(* verifyInteraction                                                       *)
(***************************************************************************)
\* msg.WriteString(timestamp); msg.Write(c.Body())
SignedMessageMutSwapped(timestamp, reqBody) == reqBody \o timestamp

SignedMessage(timestamp, reqBody) == timestamp \o reqBody

\* The verification without the signature-size check.
verifyInteractionMutNoSizeCheck(signature, timestamp, reqBody, keyEnv) ==
    LET sig == HexDecodeString(signature)
        key == HexDecodeString(keyEnv)
    IN  IF signature = <<>>
        THEN [result |-> "false", crypto |-> FALSE, reason |-> "signature header is empty"]
        ELSE IF ~sig.ok
        THEN [result |-> "false", crypto |-> FALSE, reason |-> "cannot decode signature"]
        ELSE IF timestamp = <<>>
        THEN [result |-> "false", crypto |-> FALSE, reason |-> "timestamp header is empty"]
        ELSE IF ~key.ok
        THEN [result |-> "false", crypto |-> FALSE, reason |-> "cannot decode public key"]
        ELSE [result |-> Ed25519Verify(key.bytes, SignedMessage(timestamp, reqBody), sig.bytes),
              crypto |-> TRUE, reason |-> "signature mismatch"]

\* result: what the function returns ("panic" when ed25519.Verify panics);
\* crypto: whether ed25519.Verify was called; reason: what was logged.
verifyInteraction(signature, timestamp, reqBody, keyEnv) ==
    LET sig == HexDecodeString(signature)
        key == HexDecodeString(keyEnv)
    IN  IF signature = <<>>
        THEN [result |-> "false", crypto |-> FALSE, reason |-> "signature header is empty"]
        ELSE IF ~sig.ok
        THEN [result |-> "false", crypto |-> FALSE, reason |-> "cannot decode signature"]
        ELSE IF Len(sig.bytes) # SignatureSize
        THEN [result |-> "false", crypto |-> FALSE, reason |-> "invalid signature size"]
        ELSE IF timestamp = <<>>
        THEN [result |-> "false", crypto |-> FALSE, reason |-> "timestamp header is empty"]
        ELSE IF ~key.ok
        THEN [result |-> "false", crypto |-> FALSE, reason |-> "cannot decode public key"]
        ELSE [result |-> Ed25519Verify(key.bytes, SignedMessage(timestamp, reqBody), sig.bytes),
              crypto |-> TRUE, reason |-> "signature mismatch"]

(***************************************************************************)
(* encoding/json: json.Unmarshal(body, &payload) with payload a            *)
(* map[string]any.  Values: null, booleans, numbers (float64, kept exact   *)
(* as mantissa and count of fraction digits), strings, arrays, objects.    *)
(* The request alphabet holds no backslash and no exponent, so strings     *)
(* have no escapes and numbers are -?digits(.digits)?.                     *)
(***************************************************************************)
Quote == "\""
Digits == <<"0","1","2","3","4","5","6","7","8","9">>
IsDigit(c) == \E i \in 1..10 : Digits[i] = c
DigitVal(c) == (CHOOSE i \in 1..10 : Digits[i] = c) - 1

JFail == [ok |-> FALSE, pos |-> 0, val |-> [k |-> "null"]]
JOk(v, p) == [ok |-> TRUE, pos |-> p, val |-> v]

RECURSIVE SkipWs(_, _)
SkipWs(s, i) == IF i <= Len(s) /\ s[i] = " " THEN SkipWs(s, i + 1) ELSE i

HasLiteral(s, i, lit) ==
    /\ i + Len(lit) - 1 <= Len(s)
    /\ \A j \in 1..Len(lit) : s[i + j - 1] = lit[j]

\* End of the run of digits starting at i (i itself when there is none).
RECURSIVE DigitsEnd(_, _)
DigitsEnd(s, i) == IF i <= Len(s) /\ IsDigit(s[i]) THEN DigitsEnd(s, i + 1) ELSE i

RECURSIVE DigitsValue(_, _, _, _)
DigitsValue(s, i, j, acc) ==
    IF i >= j THEN acc ELSE DigitsValue(s, i + 1, j, acc * 10 + DigitVal(s[i]))

ParseNumber(s, i) ==
    LET neg  == i <= Len(s) /\ s[i] = "-"
        i0   == IF neg THEN i + 1 ELSE i
        i1   == DigitsEnd(s, i0)
        frac == i1 <= Len(s) /\ s[i1] = "."
        i2   == IF frac THEN DigitsEnd(s, i1 + 1) ELSE i1
        mant == DigitsValue(s, i0, i1, 0)
        fval == IF frac THEN DigitsValue(s, i1 + 1, i2, mant) ELSE mant
    IN  IF i1 = i0 THEN JFail                                  \* no digit
        ELSE IF i1 - i0 > 1 /\ s[i0] = "0" THEN JFail          \* leading zero
        ELSE IF frac /\ i2 = i1 + 1 THEN JFail                 \* "1." 
        ELSE JOk([k |-> "num", neg |-> neg, mant |-> fval,
                  scale |-> IF frac THEN i2 - i1 - 1 ELSE 0], i2)

RECURSIVE StringEnd(_, _)
StringEnd(s, i) ==
    IF i > Len(s) THEN 0 ELSE IF s[i] = Quote THEN i ELSE StringEnd(s, i + 1)

ParseString(s, i) ==
    IF i > Len(s) \/ s[i] # Quote THEN JFail
    ELSE LET e == StringEnd(s, i + 1)
         IN  IF e = 0 THEN JFail
             ELSE JOk([k |-> "str", str |-> SubSeq(s, i + 1, e - 1)], e + 1)

RECURSIVE ParseValue(_, _), ParseMembers(_, _, _), ParseElements(_, _, _)

\* The members of an object after "{" (or after a ","): "key" : value, ...
ParseMembers(s, i, acc) ==
    LET key == ParseString(s, SkipWs(s, i))
        c   == IF key.ok THEN SkipWs(s, key.pos) ELSE 0
    IN  IF ~key.ok \/ c > Len(s) \/ s[c] # ":" THEN JFail
        ELSE LET v == ParseValue(s, c + 1)
                 n == IF v.ok THEN SkipWs(s, v.pos) ELSE 0
                 members == Append(acc, <<key.val.str, v.val>>)
             IN  IF ~v.ok \/ n > Len(s) THEN JFail
                 ELSE IF s[n] = "," THEN ParseMembers(s, n + 1, members)
                 ELSE IF s[n] = "}" THEN JOk([k |-> "obj", members |-> members], n + 1)
                 ELSE JFail

ParseElements(s, i, count) ==
    LET v == ParseValue(s, i)
        n == IF v.ok THEN SkipWs(s, v.pos) ELSE 0
    IN  IF ~v.ok \/ n > Len(s) THEN JFail
        ELSE IF s[n] = "," THEN ParseElements(s, n + 1, count + 1)
        ELSE IF s[n] = "]" THEN JOk([k |-> "arr", len |-> count + 1], n + 1)
        ELSE JFail

ParseValue(s, i0) ==
    LET i == SkipWs(s, i0)
    IN  IF i > Len(s) THEN JFail
        ELSE IF HasLiteral(s, i, <<"n","u","l","l">>) THEN JOk([k |-> "null"], i + 4)
        ELSE IF HasLiteral(s, i, <<"t","r","u","e">>) THEN JOk([k |-> "bool", b |-> TRUE], i + 4)
        ELSE IF HasLiteral(s, i, <<"f","a","l","s","e">>) THEN JOk([k |-> "bool", b |-> FALSE], i + 5)
        ELSE IF s[i] = Quote THEN ParseString(s, i)
        ELSE IF s[i] = "{" THEN
            LET j == SkipWs(s, i + 1)
            IN  IF j <= Len(s) /\ s[j] = "}"
                THEN JOk([k |-> "obj", members |-> <<>>], j + 1)
                ELSE ParseMembers(s, i + 1, <<>>)
        ELSE IF s[i] = "[" THEN
            LET j == SkipWs(s, i + 1)
            IN  IF j <= Len(s) /\ s[j] = "]"
                THEN JOk([k |-> "arr", len |-> 0], j + 1)
                ELSE ParseElements(s, i + 1, 0)
        ELSE ParseNumber(s, i)

\* json.Unmarshal into a map[string]any: an error unless the whole input is
\* one JSON value that is an object or null; null leaves the map nil.
\* ok: err == nil; isNil: the map is nil; members: the decoded key/value
\* pairs in input order.
JsonUnmarshal(s) ==
    LET v == ParseValue(s, 1)
    IN  IF ~v.ok \/ SkipWs(s, v.pos) # Len(s) + 1
        THEN [ok |-> FALSE, isNil |-> TRUE, members |-> <<>>]
        ELSE IF v.val.k = "null"
        THEN [ok |-> TRUE, isNil |-> TRUE, members |-> <<>>]
        ELSE IF v.val.k = "obj"
        THEN [ok |-> TRUE, isNil |-> FALSE, members |-> v.val.members]
        ELSE [ok |-> FALSE, isNil |-> TRUE, members |-> <<>>]

\* payload[key]: the value of the last member named key (a repeated key
\* overwrites the earlier one), nil when there is none or the map is nil.
RECURSIVE MapIndex(_, _, _)
MapIndex(members, key, i) ==
    IF i = 0 THEN [k |-> "null"]
    ELSE IF members[i][1] = key THEN members[i][2]
    ELSE MapIndex(members, key, i - 1)

TypeKey == <<"t","y","p","e">>

\* payload["type"].(float64): panics unless the value is a number.
IsFloat64(v) == v.k = "num"

RECURSIVE Pow10(_)
Pow10(n) == IF n = 0 THEN 1 ELSE 10 * Pow10(n - 1)

\* v == n for a float64 v and an integer n >= 1; exact for literals short
\* enough to be represented exactly, as those of the request set are.
Float64Equals(v, n) == ~v.neg /\ v.mant = n * Pow10(v.scale)

(***************************************************************************)
(* The requests the remote peer may send, and the configured key values.   *)
(***************************************************************************)
BodyHandshake      == <<"{",Quote,"t","y","p","e",Quote,":","1","}">>
BodyCommand        == <<"{",Quote,"t","y","p","e",Quote,":","2","}">>
BodyCommandData    == <<"{",Quote,"t","y","p","e",Quote,":","2",",",
                        Quote,"d","a","t","a",Quote,":","{",Quote,"n",Quote,":",
                        "[","1",",","2","]","}","}">>
BodyUnknownType    == <<"{",Quote,"t","y","p","e",Quote,":","9","9","}">>
BodyFractionType   == <<"{",Quote,"t","y","p","e",Quote,":","1",".","5","}">>
BodyHandshakeFloat == <<"{"," ",Quote,"t","y","p","e",Quote," ",":"," ","1",".","0","}">>
BodyRepeatedType   == <<"{",Quote,"t","y","p","e",Quote,":","1",",",
                        Quote,"t","y","p","e",Quote,":","2","}">>
BodyStringType     == <<"{",Quote,"t","y","p","e",Quote,":",Quote,"1",Quote,"}">>
BodyNullType       == <<"{",Quote,"t","y","p","e",Quote,":","n","u","l","l","}">>
BodyBoolType       == <<"{",Quote,"t","y","p","e",Quote,":","t","r","u","e","}">>
BodyObjectType     == <<"{",Quote,"t","y","p","e",Quote,":","{","}","}">>
BodyNoType         == <<"{","}">>
BodyJsonNull       == <<"n","u","l","l">>
BodyJsonArray      == <<"[","1","]">>
BodyTruncated      == <<"{",Quote,"t","y","p","e",Quote,":","1">>
BodyEmpty          == <<>>

Bodies == {BodyHandshake, BodyCommand, BodyCommandData, BodyUnknownType,
           BodyFractionType, BodyHandshakeFloat, BodyRepeatedType,
           BodyStringType, BodyNullType, BodyBoolType, BodyObjectType,
           BodyNoType, BodyJsonNull, BodyJsonArray, BodyTruncated, BodyEmpty}

Timestamps == {<<>>, <<"1","7">>}

\* Signature headers: absent, not hex, odd length, hex of the wrong size,
\* and the hex (either case) of signatures a key pair makes over the
\* timestamp and body in the platform's order, in the reverse order, and
\* over the body alone.
SignatureHeaders(timestamp, reqBody) ==
    {<<>>, <<"z","z">>, <<"a","b","c">>, <<"a","b","c","d">>}
    \cup {HexEncode(Sign(k, timestamp \o reqBody), HexLower) : k \in KeyPairs}
    \cup {HexEncode(Sign(1, timestamp \o reqBody), HexUpper)}
    \cup {HexEncode(Sign(1, reqBody \o timestamp), HexLower)}
    \cup {HexEncode(Sign(1, timestamp \o reqBody) \o <<0>>, HexLower)}

\* DISCORD_PUBLIC_KEY: unset, not hex, hex of the wrong size, and the hex
\* of each key pair's public key.
KeyUnset == <<>>
KeyNotHex == <<"z","z">>
KeyShort == <<"a","b","c","d">>
KeyValues == {KeyUnset, KeyNotHex, KeyShort}
             \cup {HexEncode(PublicKeyOf(k), HexLower) : k \in KeyPairs}

(***************************************************************************)
(* Responses of Event.  kind names the responder: h.responseUnauthorized,  *)
(* h.responseBadRequest or c.JSON; json is the body handed to c.JSON.      *)
(***************************************************************************)
ResponseUnauthorized == [kind |-> "unauthorized", json |-> [type |-> 0]]

ResponseBadRequest == [kind |-> "badRequest", json |-> [type |-> 0]]

\* c.JSON(fiber.Map{"type": 1})
ResponseAcknowledge == [kind |-> "json", json |-> [type |-> 1]]

EmbedColor == 14681092

\* c.JSON(fiber.Map{"type": 4, "data": ...}): the literal of the source.
ResponseCommandResult ==
    [kind |-> "json",
     json |-> [type |-> 4,
               data |-> [content |-> "*could not send SMS message*",   \* after a warning sign
                         embeds |-> <<
                            [title |-> "The to field is not a valid phone number", color |-> EmbedColor],
                            [title |-> "The from field is not a valid phone number", color |-> EmbedColor],
                            [fields |-> <<
                                [name |-> "From:", value |-> "+37259139660", inline |-> TRUE],
                                [name |-> "To:", value |-> "+37259139661", inline |-> TRUE],
                                [name |-> "Content:", value |-> "Hello World", inline |-> FALSE]>>]>>]]]

\* payload["type"]
PayloadType(p) ==
    IF p.isNil THEN [k |-> "null"] ELSE MapIndex(p.members, TypeKey, Len(p.members))

\* The dispatch, answering every type other than 1 as a command.
DispatchMutAnyCommand(p) ==
    LET t == PayloadType(p)
    IN  IF ~IsFloat64(t) THEN [panic |-> TRUE, emits |-> <<>>, command |-> FALSE]
        ELSE IF Float64Equals(t, 1)
        THEN [panic |-> FALSE, emits |-> <<ResponseAcknowledge>>, command |-> FALSE]
        ELSE [panic |-> FALSE, emits |-> <<ResponseCommandResult>>, command |-> FALSE]

\* The dispatch, with the two type tests exchanged.
DispatchMutSwapped(p) ==
    LET t == PayloadType(p)
    IN  IF ~IsFloat64(t) THEN [panic |-> TRUE, emits |-> <<>>, command |-> FALSE]
        ELSE IF Float64Equals(t, 2)
        THEN [panic |-> FALSE, emits |-> <<ResponseAcknowledge>>, command |-> FALSE]
        ELSE IF Float64Equals(t, 1)
        THEN [panic |-> FALSE, emits |-> <<ResponseCommandResult>>, command |-> FALSE]
        ELSE [panic |-> FALSE, emits |-> <<ResponseBadRequest>>, command |-> FALSE]

\* Event after the payload is decoded.  panic: the type assertion
\* payload["type"].(float64) panicked; emits: the responses written;
\* command: whether a command handler was called (the source calls none).
Dispatch(p) ==
    LET t == PayloadType(p)
    IN  IF ~IsFloat64(t) THEN [panic |-> TRUE, emits |-> <<>>, command |-> FALSE]
        ELSE IF Float64Equals(t, 1)
        THEN [panic |-> FALSE, emits |-> <<ResponseAcknowledge>>, command |-> FALSE]
        ELSE IF Float64Equals(t, 2)
        THEN [panic |-> FALSE, emits |-> <<ResponseCommandResult>>, command |-> FALSE]
        ELSE [panic |-> FALSE, emits |-> <<ResponseBadRequest>>, command |-> FALSE]

(***************************************************************************)
(* Event, one request at a time per handler invocation.                    *)
(***************************************************************************)
NoPayload == [ok |-> FALSE, isNil |-> TRUE, members |-> <<>>]

RequestIdle ==
    /\ sigHeader = <<>> /\ tsHeader = <<>> /\ body = <<>>
    /\ pc = "idle"
    /\ verified = "none"
    /\ rejectReason = "none"
    /\ cryptoInvoked = FALSE
    /\ unmarshalled = FALSE
    /\ payload = NoPayload
    /\ typeRead = FALSE
    /\ commandInvoked = FALSE
    /\ responses = <<>>

\* NewDiscordHandler and RegisterRoutes: the handler is built and the route
\* registered whatever DISCORD_PUBLIC_KEY holds; nothing reads it there.
NewDiscordHandler == publicKey \in KeyValues /\ served = 0 /\ RequestIdle

\* A POST /discord/event arrives and Event is entered.
Receive ==
    /\ pc = "idle"
    /\ served < MaxRequests
    /\ \E ts \in Timestamps, b \in Bodies :
          \E sg \in SignatureHeaders(ts, b) :
             /\ tsHeader' = ts
             /\ body' = b
             /\ sigHeader' = sg
    /\ pc' = "verify"
    /\ UNCHANGED <<publicKey, verified, rejectReason, cryptoInvoked, unmarshalled,
                   payload, typeRead, commandInvoked, responses, served>>

\* Event with the return after h.responseUnauthorized(c) missing.
EventVerifyMutFallThrough ==
    /\ pc = "verify"
    /\ LET v == verifyInteraction(sigHeader, tsHeader, body, publicKey)
       IN  /\ verified' = v.result
           /\ cryptoInvoked' = v.crypto
           /\ rejectReason' = IF v.result = "false" THEN v.reason ELSE "none"
           /\ pc' = IF v.result = "panic" THEN "panic" ELSE "parse"
           /\ responses' = IF v.result = "false"
                           THEN Append(responses, ResponseUnauthorized)
                           ELSE responses
    /\ UNCHANGED <<publicKey, sigHeader, tsHeader, body, unmarshalled, payload,
                   typeRead, commandInvoked, served>>

\* if verified := h.verifyInteraction(ctxLogger, c); !verified { return 401 }
EventVerify ==
    /\ pc = "verify"
    /\ LET v == verifyInteraction(sigHeader, tsHeader, body, publicKey)
       IN  /\ verified' = v.result
           /\ cryptoInvoked' = v.crypto
           /\ rejectReason' = IF v.result = "false" THEN v.reason ELSE "none"
           /\ pc' = CASE v.result = "panic" -> "panic"
                      [] v.result = "false" -> "done"
                      [] OTHER -> "parse"
           /\ responses' = IF v.result = "false"
                           THEN Append(responses, ResponseUnauthorized)
                           ELSE responses
    /\ UNCHANGED <<publicKey, sigHeader, tsHeader, body, unmarshalled, payload,
                   typeRead, commandInvoked, served>>

\* json.Unmarshal(c.Body(), &payload), bad request on an error
EventParse ==
    /\ pc = "parse"
    /\ unmarshalled' = TRUE
    /\ payload' = JsonUnmarshal(body)
    /\ pc' = IF payload'.ok THEN "dispatch" ELSE "done"
    /\ responses' = IF payload'.ok THEN responses
                    ELSE Append(responses, ResponseBadRequest)
    /\ UNCHANGED <<publicKey, sigHeader, tsHeader, body, verified, rejectReason,
                   cryptoInvoked, typeRead, commandInvoked, served>>

\* the type tests and the response of each
EventDispatch ==
    /\ pc = "dispatch"
    /\ typeRead' = TRUE
    /\ LET d == Dispatch(payload)
       IN  /\ pc' = IF d.panic THEN "panic" ELSE "done"
           /\ responses' = responses \o d.emits
           /\ commandInvoked' = d.command
    /\ UNCHANGED <<publicKey, sigHeader, tsHeader, body, verified, rejectReason,
                   cryptoInvoked, unmarshalled, payload, served>>

\* Event returns (defer span.End()); the route is ready for the next request.
EventReturn ==
    /\ pc = "done"
    /\ served' = served + 1
    /\ sigHeader' = <<>> /\ tsHeader' = <<>> /\ body' = <<>>
    /\ pc' = "idle"
    /\ verified' = "none"
    /\ rejectReason' = "none"
    /\ cryptoInvoked' = FALSE
    /\ unmarshalled' = FALSE
    /\ payload' = NoPayload
    /\ typeRead' = FALSE
    /\ commandInvoked' = FALSE
    /\ responses' = <<>>
    /\ UNCHANGED publicKey

(***************************************************************************)
(* Store: concurrent requests of authenticated users, each a sequence of   *)
(* steps over the shared integrations of the DiscordService.               *)
(***************************************************************************)
Users == 1..NumUsers
StoreRequests == 1..MaxStoreRequests

\* h.service.Index(ctx, userID, IndexParams{Skip: 0, Limit: 1}): the number
\* of integrations returned, at most Limit.
ServiceIndex(store, user) == IF store[user] > 0 THEN 1 ELSE 0

\* h.service.Store(ctx, params): one more integration of the user.
ServiceStore(store, user) == [store EXCEPT ![user] = @ + 1]

StoreIdle ==
    /\ integrations = [u \in Users |-> 0]
    /\ storePc = [r \in StoreRequests |-> "idle"]
    /\ storeUser = [r \in StoreRequests |-> 1]
    /\ storeFound = [r \in StoreRequests |-> 0]
    /\ storeResponse = [r \in StoreRequests |-> "none"]

\* c.BodyParser and h.validator.ValidateStore: 400, 422 or on to the index
StoreBegin(r) ==
    /\ storePc[r] = "idle"
    /\ \E u \in Users : storeUser' = [storeUser EXCEPT ![r] = u]
    /\ \E outcome \in {"badRequest", "unprocessableEntity", "valid"} :
          IF outcome = "valid"
          THEN /\ storePc' = [storePc EXCEPT ![r] = "index"]
               /\ UNCHANGED storeResponse
          ELSE /\ storePc' = [storePc EXCEPT ![r] = "done"]
               /\ storeResponse' = [storeResponse EXCEPT ![r] = outcome]
    /\ UNCHANGED <<integrations, storeFound>>

\* discordIntegrations, err := h.service.Index(...), 500 on an error
StoreIndex(r) ==
    /\ storePc[r] = "index"
    /\ \/ /\ storeFound' = [storeFound EXCEPT ![r] = ServiceIndex(integrations, storeUser[r])]
          /\ storePc' = [storePc EXCEPT ![r] = "check"]
          /\ UNCHANGED storeResponse
       \/ /\ storePc' = [storePc EXCEPT ![r] = "done"]
          /\ storeResponse' = [storeResponse EXCEPT ![r] = "internalServerError"]
          /\ UNCHANGED storeFound
    /\ UNCHANGED <<integrations, storeUser>>

\* if len(discordIntegrations) > 0 { return 402 }
StoreCheck(r) ==
    /\ storePc[r] = "check"
    /\ IF storeFound[r] > 0
       THEN /\ storePc' = [storePc EXCEPT ![r] = "done"]
            /\ storeResponse' = [storeResponse EXCEPT ![r] = "paymentRequired"]
       ELSE /\ storePc' = [storePc EXCEPT ![r] = "store"]
            /\ UNCHANGED storeResponse
    /\ UNCHANGED <<integrations, storeUser, storeFound>>

\* discordIntegration, err := h.service.Store(...), 500 on an error, else 201
StoreSave(r) ==
    /\ storePc[r] = "store"
    /\ storePc' = [storePc EXCEPT ![r] = "done"]
    /\ \/ /\ integrations' = ServiceStore(integrations, storeUser[r])
          /\ storeResponse' = [storeResponse EXCEPT ![r] = "created"]
       \/ /\ storeResponse' = [storeResponse EXCEPT ![r] = "internalServerError"]
          /\ UNCHANGED integrations
    /\ UNCHANGED <<storeUser, storeFound>>

(***************************************************************************)
(* Specifications                                                          *)
(***************************************************************************)
Init == NewDiscordHandler /\ StoreIdle

Next ==
    \/ Receive /\ UNCHANGED storeVars
    \/ EventVerify /\ UNCHANGED storeVars
    \/ EventParse /\ UNCHANGED storeVars
    \/ EventDispatch /\ UNCHANGED storeVars
    \/ EventReturn /\ UNCHANGED storeVars

Spec == Init /\ [][Next]_vars

\* The Store handler alone: the webhook route stays idle.
InitStore == publicKey = KeyUnset /\ served = 0 /\ RequestIdle /\ StoreIdle

NextStore ==
    \E r \in StoreRequests :
        \/ StoreBegin(r) /\ UNCHANGED eventVars
        \/ StoreIndex(r) /\ UNCHANGED eventVars
        \/ StoreCheck(r) /\ UNCHANGED eventVars
        \/ StoreSave(r) /\ UNCHANGED eventVars

SpecStore == InitStore /\ [][NextStore]_vars

(***************************************************************************)
(* Properties                                                              *)
(***************************************************************************)
Terminated == pc \in {"done", "panic"}

\* The request in flight passed verification and its body decoded.
Decoded == verified = "true" /\ unmarshalled /\ payload.ok

\* One of the checks before the cryptographic one fails for the request.
PreCheckFails ==
    \/ sigHeader = <<>>
    \/ ~HexDecodeString(sigHeader).ok
    \/ Len(HexDecodeString(sigHeader).bytes) # SignatureSize
    \/ tsHeader = <<>>

\* The configured key is the public key of a pair, and the signature header
\* is the hex of that pair's signature over timestamp followed by body.
ValidPresentation ==
    \E k \in KeyPairs :
        /\ HexDecodeString(publicKey).ok
        /\ HexDecodeString(publicKey).bytes = PublicKeyOf(k)
        /\ HexDecodeString(sigHeader).ok
        /\ HexDecodeString(sigHeader).bytes = Sign(k, tsHeader \o body)

\* C1: whenever verifyInteraction returned false, Event has emitted the one
\* generic unauthorized response, the same for every failing check, and has
\* neither decoded the body, nor read the payload's type, nor dispatched.
C1_RejectedIsUnauthorizedOnly ==
    verified = "false" =>
        /\ pc = "done"
        /\ responses = <<ResponseUnauthorized>>
        /\ ~unmarshalled
        /\ payload = NoPayload
        /\ ~typeRead
        /\ ~commandInvoked

\* A request whose body is a well-formed handshake is rejected by the
\* cryptographic check and answered unauthorized.
C1_Witness ==
    /\ verified = "false"
    /\ rejectReason = "signature mismatch"
    /\ body = BodyHandshake
    /\ pc = "done"
    /\ responses = <<ResponseUnauthorized>>

\* C2: every request Event has finished with, whatever the headers, body
\* and configured key, has exactly one emitted response.
C2_ExactlyOneResponse == Terminated => Len(responses) = 1

\* C3: a verified request whose body decodes but whose type is absent or
\* not a number ends with the bad-request response, without a crash.
C3_NonNumericTypeIsBadRequest ==
    (Terminated /\ Decoded /\ ~IsFloat64(PayloadType(payload))) =>
        pc = "done" /\ responses = <<ResponseBadRequest>>

\* C4: a verified request of type 2 is answered with one type-4 response
\* only after the command handler was called for it.
C4_CommandResultFollowsCommand ==
    (pc = "done" /\ Decoded /\ IsFloat64(PayloadType(payload))
        /\ Float64Equals(PayloadType(payload), 2)) =>
        /\ commandInvoked
        /\ Len(responses) = 1
        /\ responses[1].json.type = 4

\* C5: while the configured key is absent or not hex, no request is
\* verified, rejected or answered.
C5_InvalidKeyServesNothing ==
    (publicKey = KeyUnset \/ ~HexDecodeString(publicKey).ok) =>
        verified = "none" /\ responses = <<>> /\ served = 0

\* C6: when a pre-check fails (signature header empty, not hex or not 64
\* bytes, timestamp header empty), verification is false for every body and
\* the cryptographic check is not invoked.
C6_PreChecksRejectWithoutCrypto ==
    (verified # "none" /\ PreCheckFails) =>
        verified = "false" /\ ~cryptoInvoked

\* A well-formed hex signature of two bytes is rejected before the
\* cryptographic check, with a timestamp present and a valid key configured.
C6_Witness ==
    /\ verified = "false"
    /\ sigHeader = <<"a","b","c","d">>
    /\ tsHeader # <<>>
    /\ publicKey = HexEncode(PublicKeyOf(1), HexLower)
    /\ ~cryptoInvoked

\* C7 as stated: for every timestamp, a valid signature over timestamp
\* followed by body, presented with the matching key configured, verifies.
C7_ValidSignatureVerifies ==
    (verified # "none" /\ ValidPresentation) => verified = "true"

\* C7 amended: for every non-empty timestamp, a valid signature over
\* timestamp followed by body, presented with the matching key configured,
\* verifies.
C7_ValidSignatureWithTimestampVerifies ==
    (verified # "none" /\ ValidPresentation /\ tsHeader # <<>>) => verified = "true"

\* A signature sent in upper-case hex over a timestamp and an empty body
\* verifies under the second key pair's public key.
C7_Witness ==
    /\ verified = "true"
    /\ ValidPresentation
    /\ tsHeader = <<"1","7">>
    /\ body = BodyEmpty
    /\ publicKey = HexEncode(PublicKeyOf(2), HexLower)

\* C8: a verified request whose type is a number other than 1 and 2 ends
\* with the bad-request response and no Acknowledge or CommandResult.
C8_UnknownNumericTypeIsBadRequest ==
    (typeRead /\ Decoded /\ IsFloat64(PayloadType(payload))
        /\ ~Float64Equals(PayloadType(payload), 1)
        /\ ~Float64Equals(PayloadType(payload), 2)) =>
        pc = "done" /\ responses = <<ResponseBadRequest>>

\* The request {"type":99} was verified, dispatched and answered.
C8_Witness ==
    /\ typeRead
    /\ verified = "true"
    /\ body = BodyUnknownType
    /\ responses = <<ResponseBadRequest>>

\* C9: a verified request of type 1 ends with exactly the body {"type": 1},
\* with no data field, and no command handler is called.
C9_HandshakeAcknowledged ==
    (typeRead /\ Decoded /\ IsFloat64(PayloadType(payload))
        /\ Float64Equals(PayloadType(payload), 1)) =>
        /\ pc = "done"
        /\ Len(responses) = 1
        /\ responses[1].kind = "json"
        /\ DOMAIN responses[1].json = {"type"}
        /\ responses[1].json.type = 1
        /\ ~commandInvoked

\* The request {"type":1} was verified, dispatched and acknowledged.
C9_Witness ==
    /\ typeRead
    /\ verified = "true"
    /\ body = BodyHandshake
    /\ responses = <<ResponseAcknowledge>>

\* C10: under every interleaving of concurrent Store requests, each user
\* has at most one stored discord integration.
C10_AtMostOneIntegrationPerUser == \A u \in Users : integrations[u] <= 1

====
